---- MODULE Spec2Model ----
(***************************************************************************)
(* Session lifecycle and streaming relay of the ticket booking backend     *)
(* (src/main.py): the in-memory session store, the lazy expiry sweep, the  *)
(* /chat handler and the SSE generator that relays the provider's stream.  *)
(*                                                                         *)
(* Strings are modelled as sequences of characters, so that `+=` on        *)
(* full_response is sequence concatenation and the truth test of a string  *)
(* (`if content`) is a comparison with the empty sequence.  Session ids    *)
(* are TLA+ strings.  A Session object lives on in `sessions` (the heap)   *)
(* after its key is deleted from active_sessions, because a running        *)
(* generator still holds a reference to it; since an object is only ever   *)
(* stored under the uuid it was created for, the heap is keyed by that id. *)
(***************************************************************************)
EXTENDS Integers, Sequences, FiniteSets, TLC

\* ---------------------------------------------------------------- bounds
MaxRequests == 2      \* chat requests served in one behaviour
MaxConcurrent == 2    \* responses being streamed at the same time
MaxChunks == 2        \* chunks the provider emits for one completion
MaxTicks == 2         \* clock advances in one behaviour

\* ------------------------------------------------------ program constants
SESSION_EXPIRY == 30                  \* minutes
SYSTEM_PROMPT == <<"S">>

\* Clock advances: exactly the window and one minute more than the window,
\* so that a session at the boundary and an expired session both occur.
TickSteps == {SESSION_EXPIRY, SESSION_EXPIRY + 1}

Reqs == 1..MaxConcurrent

\* request.query of the n-th request: queries are opaque to the handler and
\* told apart by their ordinal ("q1", "q2", ...)
Query(n) == <<"q" \o ToString(n)>>
Queries == {Query(n) : n \in 1..MaxRequests}
NoContent == <<>>                     \* a chunk without choices/delta/content

NoneId == "<None>"                    \* request.session_id omitted (None)
ForeignIds == {NoneId, "", "bogus"}   \* ids that no uuid4() call returns

VARIABLES
  active_sessions,   \* keys of the dict active_sessions
  sessions,          \* heap: id -> Session object (messages, last_active)
  uuids,             \* number of uuid4() calls made so far
  now,               \* datetime.now(), in minutes
  ticks,             \* number of clock advances so far
  served,            \* number of chat requests received so far
  req,               \* per response: position and locals of stream_generator,
                     \*   and the messages its provider call was made with
  completion,        \* per response: chunks the provider has emitted so far
  appended,          \* per response: roles of the messages its request appended
  exchanges          \* per session: exchanges completed, whether all ran alone,
                     \*   and whether a caller closed a response mid-stream

vars == <<active_sessions, sessions, uuids, now, ticks, served, req, completion,
          appended, exchanges>>

\* ----------------------------------------------------------------- Session
\* str(uuid.uuid4()): the n-th generated id; distinct calls return distinct ids
uuid4(n) == "uuid-" \o ToString(n)

IssuedIds == {uuid4(n) : n \in 1..uuids}

\* What a caller can pass as session_id
CallerIds == ForeignIds \cup IssuedIds

Msg(role, content) == [role |-> role, content |-> content]

\* Variant of NewSession: the transcript starts empty
NewSessionNoPrompt(t) == [messages |-> <<>>, last_active |-> t]

\* Session.__init__
NewSession(t) == [messages |-> <<Msg("system", SYSTEM_PROMPT)>>, last_active |-> t]

\* Variant of add_message: empty content is not recorded
add_message_unless_empty(session, role, content, t) ==
  IF content = <<>> THEN session
  ELSE [messages |-> Append(session.messages, Msg(role, content)), last_active |-> t]

\* Variant of add_message: the transcript is cut to its newest two messages
add_message_windowed(session, role, content, t) ==
  LET m == Append(session.messages, Msg(role, content))
  IN [messages |-> IF Len(m) > 2 THEN SubSeq(m, Len(m) - 1, Len(m)) ELSE m, last_active |-> t]

\* Session.add_message
add_message(session, role, content, t) ==
  [messages |-> Append(session.messages, Msg(role, content)), last_active |-> t]

\* Variant of is_expired: the operands of the subtraction are swapped
is_expired_swapped(session, t) == (session.last_active - t) > SESSION_EXPIRY

\* Variant of is_expired: a session idle for exactly the window is expired
is_expired_inclusive(session, t) == (t - session.last_active) >= SESSION_EXPIRY

\* Session.is_expired
is_expired(session, t) == (t - session.last_active) > SESSION_EXPIRY

\* Session.get_messages
get_messages(session) == session.messages

\* clean_expired_sessions: the list of expired keys, and the keys left in the
\* dict after they are deleted, at time t
expired_sessions(store, heap, t) == {sid \in store : is_expired(heap[sid], t)}

\* Variant of clean_expired_sessions: one expired key is deleted per call
clean_first_expired(store, heap, t) ==
  IF expired_sessions(store, heap, t) = {} THEN store
  ELSE store \ {CHOOSE sid \in expired_sessions(store, heap, t) : TRUE}

clean_expired_sessions(store, heap, t) == store \ expired_sessions(store, heap, t)

\* ---------------------------------------------------------------- envelopes
SessionEnv(sid) == [type |-> "session", session_id |-> sid]
TextEnv(content) == [type |-> "text", value |-> content]
ErrorEnv == [type |-> "error", value |-> <<"E">>]
DoneMarker == [type |-> "[DONE]"]

\* ------------------------------------------------------------------ requests
\* A slot with no response being streamed
IdleReq == [pc |-> "idle", session_id |-> NoneId, full_response |-> <<>>, sent |-> <<>>,
            out |-> <<>>]

\* A response whose generator has not delivered [DONE] yet
InFlight(r) == req[r].pc \in {"created", "yield_session", "yield_text", "sleep", "yield_error"}

\* The response in slot r is suspended at an envelope delivery or at the
\* pacing delay, before [DONE]
MidStream(r) == req[r].pc \in {"yield_session", "yield_text", "sleep", "yield_error"}

Init ==
  /\ active_sessions = {}
  /\ sessions = << >>
  /\ uuids = 0
  /\ now = 0
  /\ ticks = 0
  /\ served = 0
  /\ req = [r \in Reqs |-> IdleReq]
  /\ completion = [r \in Reqs |-> <<>>]
  /\ appended = [r \in Reqs |-> <<>>]
  /\ exchanges = << >>

\* The clock advances
Tick(d) ==
  /\ ticks < MaxTicks
  /\ now' = now + d
  /\ ticks' = ticks + 1
  /\ UNCHANGED <<active_sessions, sessions, uuids, served, req, completion, appended, exchanges>>

\* Variant of NeedsNew: the id passed by the caller is never looked up
NeedsNewAlways(sid, store) == TRUE

\* `not session_id or session_id not in active_sessions`
NeedsNew(sid, store) == sid \in {NoneId, ""} \/ sid \notin store

\* Variant of ResolveId: an unknown id is kept as the key of the new session
ResolveIdAdopt(sid, store, fresh) == IF sid \in {NoneId, ""} THEN fresh ELSE sid

\* The id under which chat serves a request carrying `sid`, given the keys
\* left after the sweep and the id uuid4() would return
ResolveId(sid, store, fresh) == IF NeedsNew(sid, store) THEN fresh ELSE sid

\* Variant of Chat: the handler is suspended after it resolved the session,
\* before the user message is appended
ChatSuspends(r, sid, query) ==
  /\ served < MaxRequests
  /\ query = Query(served + 1)
  /\ req[r].pc = "idle"
  /\ \A p \in Reqs : p < r => req[p].pc # "idle"
  /\ LET swept == clean_expired_sessions(active_sessions, sessions, now)
         isNew == NeedsNew(sid, swept)
         id == ResolveId(sid, swept, uuid4(uuids + 1))
         session == IF id \in swept THEN sessions[id] ELSE NewSession(now)
         alone == \A p \in Reqs : InFlight(p) => req[p].session_id # id
     IN /\ active_sessions' = swept \cup {id}
        /\ uuids' = IF isNew THEN uuids + 1 ELSE uuids
        /\ sessions' = [s \in (DOMAIN sessions) \cup {id} |->
                          IF s = id THEN session ELSE sessions[s]]
        /\ req' = [req EXCEPT ![r] = [IdleReq EXCEPT !.pc = "created", !.session_id = id]]
        /\ exchanges' = [s \in (DOMAIN sessions) \cup {id} |->
                          IF s # id THEN exchanges[s]
                          ELSE IF id \in swept
                               THEN [exchanges[s] EXCEPT !.serial = @ /\ alone]
                               ELSE [n |-> 0, serial |-> TRUE, closed |-> FALSE]]
  /\ served' = served + 1
  /\ appended' = [appended EXCEPT ![r] = <<>>]
  /\ UNCHANGED <<now, ticks, completion>>

\* chat(request): sweep, get or create the session, append the user message,
\* build the generator.  The body has no await, so it is one step.
Chat(r, sid, query) ==
  /\ served < MaxRequests
  /\ query = Query(served + 1)
  /\ req[r].pc = "idle"
  /\ \A p \in Reqs : p < r => req[p].pc # "idle"
  /\ LET swept == clean_expired_sessions(active_sessions, sessions, now)
         isNew == NeedsNew(sid, swept)
         id == ResolveId(sid, swept, uuid4(uuids + 1))
         session == IF id \in swept THEN sessions[id] ELSE NewSession(now)
         alone == \A p \in Reqs : InFlight(p) => req[p].session_id # id
     IN /\ active_sessions' = swept \cup {id}
        /\ uuids' = IF isNew THEN uuids + 1 ELSE uuids
        /\ sessions' = [s \in (DOMAIN sessions) \cup {id} |->
                          IF s = id THEN add_message(session, "user", query, now)
                          ELSE sessions[s]]
        /\ req' = [req EXCEPT ![r] = [IdleReq EXCEPT !.pc = "created", !.session_id = id]]
        /\ exchanges' = [s \in (DOMAIN sessions) \cup {id} |->
                          IF s # id THEN exchanges[s]
                          ELSE IF id \in swept
                               THEN [exchanges[s] EXCEPT !.serial = @ /\ alone]
                               ELSE [n |-> 0, serial |-> TRUE, closed |-> FALSE]]
  /\ served' = served + 1
  /\ appended' = [appended EXCEPT ![r] = <<"user">>]
  /\ UNCHANGED <<now, ticks, completion>>

\* Append `envs` to what the caller of response r has received
Deliver(rq, envs) == [rq EXCEPT !.out = rq.out \o envs]

\* Variant of Start: the session envelope is not yielded
StartNoEnvelope(r) ==
  /\ req[r].pc = "created"
  /\ req' = [req EXCEPT ![r].pc = "yield_session"]
  /\ UNCHANGED <<active_sessions, sessions, uuids, now, ticks, served, completion, appended, exchanges>>

\* The generator's first resumption: messages = session.get_messages() (an
\* alias of the live list, read when the provider is called) and the yield
\* of the session envelope.
Start(r) ==
  /\ req[r].pc = "created"
  /\ req' = [req EXCEPT ![r] = [Deliver(@, <<SessionEnv(@.session_id)>>) EXCEPT !.pc = "yield_session"]]
  /\ UNCHANGED <<active_sessions, sessions, uuids, now, ticks, served, completion, appended, exchanges>>

\* Variant of AtProvider: the provider is consulted for one response of a
\* session at a time, the others wait
AtProviderExclusive(r) ==
  /\ req[r].pc \in {"yield_session", "sleep"}
  /\ \A p \in Reqs \ {r} : req[p].pc = "idle" \/ req[p].session_id # req[r].session_id

\* The generator is resumed where the provider is consulted next: after the
\* session envelope (the create() call, then the first chunk) or after the
\* pacing delay (the next chunk).
AtProvider(r) == req[r].pc \in {"yield_session", "sleep"}

\* The provider yields `skipped` chunks without content, which the loop
\* passes over without suspending, before the event the step ends with.
Skipped(r, skipped) == completion[r] \o [i \in 1..skipped |-> NoContent]

\* The chunks with content among `chunks`
WithContent(chunks) == SelectSeq(chunks, LAMBDA c : c # NoContent)

\* The non-empty delta.content of the n-th chunk with content of a completion:
\* the provider's fragments are opaque to the relay and told apart by their
\* ordinal ("f1", "f2", ...)
Fragment(n) == <<"f" \o ToString(n)>>

\* Variant of Called: only the system message and the newest message are sent
CalledLatestOnly(r) ==
  IF req[r].pc = "yield_session"
  THEN LET m == get_messages(sessions[req[r].session_id]) IN <<m[1], m[Len(m)]>>
  ELSE req[r].sent

\* messages as passed to create(): the session's list as it is when the call
\* is made, which is when the generator is resumed after the session envelope
Called(r) ==
  IF req[r].pc = "yield_session" THEN get_messages(sessions[req[r].session_id])
  ELSE req[r].sent

\* Variant of NextText: full_response is assigned, not accumulated
NextTextOverwrite(r, skipped, content) ==
  /\ AtProvider(r)
  /\ Len(completion[r]) + skipped < MaxChunks
  /\ content = Fragment(Len(WithContent(completion[r])) + 1)
  /\ completion' = [completion EXCEPT ![r] = Append(Skipped(r, skipped), content)]
  /\ req' = [req EXCEPT ![r] = [Deliver(@, <<TextEnv(content)>>) EXCEPT
                                  !.pc = "yield_text", !.sent = Called(r),
                                  !.full_response = content]]
  /\ UNCHANGED <<active_sessions, sessions, uuids, now, ticks, served, appended, exchanges>>

\* A chunk with content: accumulate it and yield the text envelope
NextText(r, skipped, content) ==
  /\ AtProvider(r)
  /\ Len(completion[r]) + skipped < MaxChunks
  /\ content = Fragment(Len(WithContent(completion[r])) + 1)
  /\ completion' = [completion EXCEPT ![r] = Append(Skipped(r, skipped), content)]
  /\ req' = [req EXCEPT ![r] = [Deliver(@, <<TextEnv(content)>>) EXCEPT
                                  !.pc = "yield_text", !.sent = Called(r),
                                  !.full_response = @ \o content]]
  /\ UNCHANGED <<active_sessions, sessions, uuids, now, ticks, served, appended, exchanges>>

\* After the text envelope is taken: await asyncio.sleep(0.01)
Pace(r) ==
  /\ req[r].pc = "yield_text"
  /\ req' = [req EXCEPT ![r].pc = "sleep"]
  /\ UNCHANGED <<active_sessions, sessions, uuids, now, ticks, served, completion, appended, exchanges>>

\* Variant of Complete: [DONE] is yielded before the assistant message is appended
CompleteDoneFirst(r, skipped) ==
  /\ AtProvider(r)
  /\ Len(completion[r]) + skipped <= MaxChunks
  /\ completion' = [completion EXCEPT ![r] = Skipped(r, skipped)]
  /\ exchanges' = [exchanges EXCEPT ![req[r].session_id].n = @ + 1]
  /\ req' = [req EXCEPT ![r] = [Deliver(@, <<DoneMarker>>) EXCEPT
                                  !.pc = "yield_done", !.sent = Called(r)]]
  /\ UNCHANGED <<active_sessions, sessions, uuids, now, ticks, served, appended>>

\* Variant of Complete: the messages list is shared by all Session objects
CompleteSharedList(r, skipped) ==
  /\ AtProvider(r)
  /\ Len(completion[r]) + skipped <= MaxChunks
  /\ completion' = [completion EXCEPT ![r] = Skipped(r, skipped)]
  /\ sessions' = [s \in DOMAIN sessions |->
                    add_message(sessions[s], "assistant", req[r].full_response, now)]
  /\ exchanges' = [exchanges EXCEPT ![req[r].session_id].n = @ + 1]
  /\ appended' = [appended EXCEPT ![r] = Append(@, "assistant")]
  /\ req' = [req EXCEPT ![r] = [Deliver(@, <<DoneMarker>>) EXCEPT
                                  !.pc = "yield_done", !.sent = Called(r)]]
  /\ UNCHANGED <<active_sessions, uuids, now, ticks, served>>

\* Variant of Complete: the reply is appended to the copy of the transcript
\* the provider was called with, and that copy replaces the transcript
CompleteLastWriteWins(r, skipped) ==
  /\ AtProvider(r)
  /\ Len(completion[r]) + skipped <= MaxChunks
  /\ completion' = [completion EXCEPT ![r] = Skipped(r, skipped)]
  /\ sessions' = [sessions EXCEPT ![req[r].session_id] =
                    [messages |-> Append(Called(r), Msg("assistant", req[r].full_response)),
                     last_active |-> now]]
  /\ exchanges' = [exchanges EXCEPT ![req[r].session_id].n = @ + 1]
  /\ appended' = [appended EXCEPT ![r] = Append(@, "assistant")]
  /\ req' = [req EXCEPT ![r] = [Deliver(@, <<DoneMarker>>) EXCEPT
                                  !.pc = "yield_done", !.sent = Called(r)]]
  /\ UNCHANGED <<active_sessions, uuids, now, ticks, served>>

\* The provider's stream ends: append the assistant message, yield [DONE]
Complete(r, skipped) ==
  /\ AtProvider(r)
  /\ Len(completion[r]) + skipped <= MaxChunks
  /\ completion' = [completion EXCEPT ![r] = Skipped(r, skipped)]
  /\ LET id == req[r].session_id
     IN /\ sessions' = [sessions EXCEPT ![id] = add_message(@, "assistant", req[r].full_response, now)]
        /\ exchanges' = [exchanges EXCEPT ![id].n = @ + 1]
  /\ appended' = [appended EXCEPT ![r] = Append(@, "assistant")]
  /\ req' = [req EXCEPT ![r] = [Deliver(@, <<DoneMarker>>) EXCEPT
                                  !.pc = "yield_done", !.sent = Called(r)]]
  /\ UNCHANGED <<active_sessions, uuids, now, ticks, served>>

\* Variant of Fail: the except clause appends the partial reply
FailKeepsPartial(r, skipped) ==
  /\ AtProvider(r)
  /\ Len(completion[r]) + skipped <= MaxChunks
  /\ completion' = [completion EXCEPT ![r] = Skipped(r, skipped)]
  /\ req' = [req EXCEPT ![r] = [Deliver(@, <<ErrorEnv>>) EXCEPT
                                  !.pc = "yield_error", !.sent = Called(r)]]
  /\ sessions' = [sessions EXCEPT ![req[r].session_id] =
                    add_message(@, "assistant", req[r].full_response, now)]
  /\ exchanges' = [exchanges EXCEPT ![req[r].session_id].serial = FALSE]
  /\ appended' = [appended EXCEPT ![r] = Append(@, "assistant")]
  /\ UNCHANGED <<active_sessions, uuids, now, ticks, served>>

\* create() or the iteration of the completion raises: the except clause
\* yields the error envelope
Fail(r, skipped) ==
  /\ AtProvider(r)
  /\ Len(completion[r]) + skipped <= MaxChunks
  /\ completion' = [completion EXCEPT ![r] = Skipped(r, skipped)]
  /\ req' = [req EXCEPT ![r] = [Deliver(@, <<ErrorEnv>>) EXCEPT
                                  !.pc = "yield_error", !.sent = Called(r)]]
  /\ exchanges' = [exchanges EXCEPT ![req[r].session_id].serial = FALSE]
  /\ UNCHANGED <<active_sessions, sessions, uuids, now, ticks, served, appended>>

\* Variant of AfterError: the failure surfaces a second time before [DONE]
AfterErrorReraise(r) ==
  /\ req[r].pc = "yield_error"
  /\ req' = [req EXCEPT ![r] = [Deliver(@, <<ErrorEnv, DoneMarker>>) EXCEPT !.pc = "yield_done"]]
  /\ UNCHANGED <<active_sessions, sessions, uuids, now, ticks, served, completion, appended, exchanges>>

\* After the error envelope is taken: yield [DONE] in the except clause
AfterError(r) ==
  /\ req[r].pc = "yield_error"
  /\ req' = [req EXCEPT ![r] = [Deliver(@, <<DoneMarker>>) EXCEPT !.pc = "yield_done"]]
  /\ UNCHANGED <<active_sessions, sessions, uuids, now, ticks, served, completion, appended, exchanges>>

\* The response is over: its generator and its stream are released
Release(r) ==
  /\ req' = [req EXCEPT ![r] = IdleReq]
  /\ completion' = [completion EXCEPT ![r] = <<>>]
  /\ appended' = [appended EXCEPT ![r] = <<>>]

\* After [DONE] is taken the generator returns and the response ends
Finish(r) ==
  /\ req[r].pc = "yield_done"
  /\ Release(r)
  /\ UNCHANGED <<active_sessions, sessions, uuids, now, ticks, served, exchanges>>

\* Variant of Disconnect: closing the generator saves the partial reply
DisconnectSavesPartial(r) ==
  /\ req[r].pc \in {"created", "yield_session", "yield_text", "sleep", "yield_error", "yield_done"}
  /\ Release(r)
  /\ exchanges' = [exchanges EXCEPT ![req[r].session_id] =
                     [@ EXCEPT !.serial = @ /\ req[r].pc = "yield_done",
                               !.closed = @ \/ MidStream(r)]]
  /\ sessions' = [sessions EXCEPT ![req[r].session_id] =
                    IF req[r].pc = "yield_done" THEN @
                    ELSE add_message(@, "assistant", req[r].full_response, now)]
  /\ UNCHANGED <<active_sessions, uuids, now, ticks, served>>

\* The caller disconnects before the generator is started, or while it is
\* suspended at a yield or at the pacing delay: GeneratorExit and
\* CancelledError are not Exceptions, so the except clause does not run and
\* the generator is closed.
Disconnect(r) ==
  /\ req[r].pc \in {"created", "yield_session", "yield_text", "sleep", "yield_error", "yield_done"}
  /\ Release(r)
  /\ exchanges' = [exchanges EXCEPT ![req[r].session_id] =
                     [@ EXCEPT !.serial = @ /\ req[r].pc = "yield_done",
                               !.closed = @ \/ MidStream(r)]]
  /\ UNCHANGED <<active_sessions, sessions, uuids, now, ticks, served>>

Next ==
  \/ \E d \in TickSteps : Tick(d)
  \/ \E r \in Reqs, sid \in CallerIds, q \in Queries : Chat(r, sid, q)
  \/ \E r \in Reqs : Start(r)
  \/ \E r \in Reqs, k \in 0..MaxChunks, c \in {Fragment(n) : n \in 1..MaxChunks} : NextText(r, k, c)
  \/ \E r \in Reqs : Pace(r)
  \/ \E r \in Reqs, k \in 0..MaxChunks : Complete(r, k)
  \/ \E r \in Reqs, k \in 0..MaxChunks : Fail(r, k)
  \/ \E r \in Reqs : AfterError(r)
  \/ \E r \in Reqs : Finish(r)
  \/ \E r \in Reqs : Disconnect(r)

Spec == Init /\ [][Next]_vars

\* A step of the generator of response r: the event loop resumes it because
\* its caller took the envelope, the pacing delay is over, or the provider's
\* stream has produced its next event
Progress(r) ==
  \/ Start(r)
  \/ \E k \in 0..MaxChunks, c \in {Fragment(n) : n \in 1..MaxChunks} : NextText(r, k, c)
  \/ Pace(r)
  \/ \E k \in 0..MaxChunks : Complete(r, k)
  \/ \E k \in 0..MaxChunks : Fail(r, k)
  \/ AfterError(r)

\* The event loop runs every generator that can be resumed, and the
\* provider's stream ends or fails
LiveSpec == Spec /\ \A r \in Reqs : WF_vars(Progress(r))

\* The same system when no caller ever passes a session id
NextAnonymous ==
  \/ \E d \in TickSteps : Tick(d)
  \/ \E r \in Reqs, q \in Queries : Chat(r, NoneId, q)
  \/ \E r \in Reqs : Start(r)
  \/ \E r \in Reqs, k \in 0..MaxChunks, c \in {Fragment(n) : n \in 1..MaxChunks} : NextText(r, k, c)
  \/ \E r \in Reqs : Pace(r)
  \/ \E r \in Reqs, k \in 0..MaxChunks : Complete(r, k)
  \/ \E r \in Reqs, k \in 0..MaxChunks : Fail(r, k)
  \/ \E r \in Reqs : AfterError(r)
  \/ \E r \in Reqs : Finish(r)
  \/ \E r \in Reqs : Disconnect(r)

SpecAnonymous == Init /\ [][NextAnonymous]_vars

\* ------------------------------------------------------------------ claims
\* The keys left in the store by the sweep of a request arriving now
Swept == clean_expired_sessions(active_sessions, sessions, now)

\* The first message of every transcript, and a user message
SystemMsg == Msg("system", SYSTEM_PROMPT)
UserMsg(query) == Msg("user", query)

\* The step is the handling of a chat request carrying `sid`, in slot r
Handles(r, sid, query) == Chat(r, sid, query)

\* C1: a request whose session_id is absent, empty, unknown or swept is served
\* under a newly generated, non-empty id that was never a key of the store and
\* is not the id the caller passed; the first envelope of the response is the
\* session envelope carrying that id.
C1_NewSessionStep ==
  \A r \in Reqs, sid \in CallerIds, q \in Queries :
    (Handles(r, sid, q) /\ sid \notin Swept) =>
      LET id == req'[r].session_id
      IN /\ id \notin {NoneId, ""}
         /\ id # sid
         /\ id \notin active_sessions
         /\ id \notin DOMAIN sessions
         /\ id \in active_sessions'

C1_FirstEnvelope ==
  \A r \in Reqs : req[r].out # <<>> => req[r].out[1] = SessionEnv(req[r].session_id)

C1_FreshSessionId == [][C1_NewSessionStep]_vars /\ []C1_FirstEnvelope

\* C1 witness: a second session was created after the first was swept, and
\* its response has delivered the session envelope
C1_Witness ==
  /\ uuids = 2
  /\ active_sessions = {uuid4(2)}
  /\ \E r \in Reqs : req[r].out # <<>> /\ req[r].out[1] = SessionEnv(uuid4(2))

\* C2: a request passing the id of a session that is still in the store after
\* the sweep is served under exactly that id: no store entry is created, the
\* user message is appended to the existing transcript, and every session
\* envelope of the response carries that id.
C2_ReuseStep ==
  \A r \in Reqs, sid \in CallerIds, q \in Queries :
    (Handles(r, sid, q) /\ sid \in Swept) =>
      /\ req'[r].session_id = sid
      /\ active_sessions' = Swept
      /\ DOMAIN sessions' = DOMAIN sessions
      /\ uuids' = uuids
      /\ sessions'[sid].messages = Append(sessions[sid].messages, UserMsg(q))

C2_IdKept ==
  \A r \in Reqs :
    (req[r].pc # "idle" /\ req'[r].pc # "idle") => req'[r].session_id = req[r].session_id

C2_SessionEnvelopes ==
  \A r \in Reqs : \A i \in 1..Len(req[r].out) :
    req[r].out[i].type = "session" => req[r].out[i].session_id = req[r].session_id

C2_LiveSessionReused == [][C2_ReuseStep /\ C2_IdKept]_vars /\ []C2_SessionEnvelopes

\* C2 witness: the second request was served under the first session's id and
\* its response has delivered the session envelope
C2_Witness ==
  /\ served = 2
  /\ uuids = 1
  /\ Len(sessions[uuid4(1)].messages) >= 3
  /\ \E r \in Reqs : req[r].out # <<>> /\ req[r].out[1] = SessionEnv(uuid4(1))

\* The envelopes of one type among `out`, and the values of its text envelopes
OfType(out, type) == SelectSeq(out, LAMBDA e : e.type = type)
TextValues(out) == [i \in 1..Len(OfType(out, "text")) |-> OfType(out, "text")[i].value]

\* The text envelopes that relay the fragments `contents`, in order
TextEnvs(contents) == [i \in 1..Len(contents) |-> TextEnv(contents[i])]

\* The concatenation of a sequence of strings
RECURSIVE Concat(_)
Concat(strs) == IF strs = <<>> THEN <<>> ELSE Head(strs) \o Concat(Tail(strs))

\* The response of slot r carries an error envelope / the terminal marker
HasError(r) == OfType(req[r].out, "error") # <<>>
HasDone(r) == OfType(req[r].out, "[DONE]") # <<>>

\* The step is a step of the response in slot r
StepOf(r) == req'[r] # req[r]

\* C3: after N successful exchanges run one after another on a session, its
\* transcript is the system message followed by N user/assistant pairs
\* (length 1 + 2N), also when a reply had no text fragment at all.
C3_SerialTranscript ==
  \A s \in DOMAIN sessions :
    (exchanges[s].serial /\ \A r \in Reqs : InFlight(r) => req[r].session_id # s) =>
      LET m == sessions[s].messages
          n == exchanges[s].n
      IN /\ Len(m) = 1 + 2 * n
         /\ m[1] = SystemMsg
         /\ \A i \in 1..n : m[2 * i].role = "user" /\ m[2 * i + 1].role = "assistant"

\* C3 witness: two exchanges completed one after the other on one session,
\* one of them with an empty reply
C3_Witness ==
  \E s \in DOMAIN sessions :
    /\ exchanges[s].serial
    /\ exchanges[s].n = 2
    /\ \A r \in Reqs : InFlight(r) => req[r].session_id # s
    /\ \E i \in 1..Len(sessions[s].messages) : sessions[s].messages[i] = Msg("assistant", <<>>)

\* C4: a request whose provider call fails appends only its user message: no
\* step of a response other than its normal completion changes a transcript
\* (not the delivery of a fragment, not the failure, not what follows it), so
\* no assistant message is appended for the fragments already delivered.
C4_FailedAppendsUserOnly ==
  \A r \in Reqs : HasError(r) => appended[r] = <<"user">>

C4_FailureStep ==
  \A r \in Reqs :
    (/\ StepOf(r)
     /\ req[r].pc # "idle"
     /\ \/ req'[r].pc # "yield_done"
        \/ OfType(req'[r].out, "error") # <<>>) => sessions' = sessions

C4_NoPartialReply == [][C4_FailureStep]_vars /\ []C4_FailedAppendsUserOnly

\* C4 witness: the provider failed after a fragment was delivered, and the
\* transcript ends with the user message of the failed turn
C4_Witness ==
  \E r \in Reqs :
    /\ req[r].pc = "yield_done"
    /\ HasError(r)
    /\ req[r].full_response # <<>>
    /\ sessions[req[r].session_id].messages = <<SystemMsg, UserMsg(Query(1))>>

\* C5: when the provider fails after k text fragments, the caller receives the
\* session envelope, the k text envelopes, exactly one error envelope, then
\* [DONE], and nothing after it.
C5_ErrorStream ==
  \A r \in Reqs :
    HasError(r) =>
      LET expected == <<SessionEnv(req[r].session_id)>>
                        \o TextEnvs(WithContent(completion[r])) \o <<ErrorEnv>>
      IN /\ req[r].pc \in {"yield_error", "yield_done"}
         /\ req[r].pc = "yield_error" => req[r].out = expected
         /\ req[r].pc = "yield_done" => req[r].out = expected \o <<DoneMarker>>

C5_NothingAfterDone ==
  \A r \in Reqs : (HasDone(r) /\ StepOf(r)) => req'[r] = IdleReq

C5_FailureEnvelopes == []C5_ErrorStream /\ [][C5_NothingAfterDone]_vars

\* C5 witness: the provider failed after two fragments and [DONE] was delivered
C5_Witness ==
  \E r \in Reqs :
    /\ HasError(r)
    /\ HasDone(r)
    /\ Len(OfType(req[r].out, "text")) = 2

\* C6: on normal completion the assistant message is in the transcript when
\* [DONE] is delivered, exactly one was appended, and [DONE] is the last
\* envelope of the stream.
C6_RepliedWhenDone ==
  \A r \in Reqs :
    (HasDone(r) /\ ~HasError(r)) =>
      LET m == sessions[req[r].session_id].messages
      IN /\ appended[r] = <<"user", "assistant">>
         /\ \E i \in 1..Len(m) : m[i] = Msg("assistant", req[r].full_response)
         /\ OfType(req[r].out, "[DONE]") = <<DoneMarker>>
         /\ req[r].out[Len(req[r].out)] = DoneMarker

C6_CompletionStep ==
  \A r \in Reqs :
    (StepOf(r) /\ ~HasDone(r) /\ req'[r].pc = "yield_done" /\ ~HasError(r)) =>
      LET id == req[r].session_id
      IN /\ Len(sessions'[id].messages) = Len(sessions[id].messages) + 1
         /\ \A s \in DOMAIN sessions : s # id => sessions'[s] = sessions[s]

C6_LastStep ==
  \A r \in Reqs : (HasDone(r) /\ StepOf(r)) => (req'[r] = IdleReq /\ sessions' = sessions)

C6_AppendBeforeDone == []C6_RepliedWhenDone /\ [][C6_CompletionStep /\ C6_LastStep]_vars

\* C6 witness: a reply of two fragments was appended and [DONE] delivered
C6_Witness ==
  \E r \in Reqs :
    /\ HasDone(r)
    /\ ~HasError(r)
    /\ Len(req[r].full_response) = 2

\* C7: the text envelopes of a response are the provider's non-empty fragments
\* in emission order, and on normal completion the content of the appended
\* assistant message is the concatenation of the delivered text values.
C7_RelayedInOrder ==
  \A r \in Reqs :
    req[r].pc # "idle" => OfType(req[r].out, "text") = TextEnvs(WithContent(completion[r]))

C7_ReplyStep ==
  \A r \in Reqs :
    (StepOf(r) /\ ~HasDone(r) /\ req'[r].pc = "yield_done" /\ ~HasError(r)) =>
      LET id == req[r].session_id
      IN sessions'[id].messages =
           Append(sessions[id].messages, Msg("assistant", Concat(TextValues(req'[r].out))))

C7_OrderedAndAssembled == []C7_RelayedInOrder /\ [][C7_ReplyStep]_vars

\* C7 witness: two fragments were delivered and the reply assembled from them is in the transcript
C7_Witness ==
  \E r \in Reqs :
    /\ HasDone(r)
    /\ TextValues(req[r].out) = <<Fragment(1), Fragment(2)>>
    /\ \E i \in 1..Len(sessions[req[r].session_id].messages) :
         sessions[req[r].session_id].messages[i] = Msg("assistant", Fragment(1) \o Fragment(2))

\* C8 as stated: a request without session id whose provider call completes
\* gets the session envelope, then one or more text envelopes, then [DONE].
\* (Checked under SpecAnonymous, where no request carries a session id.)
C8_AtLeastOneText ==
  \A r \in Reqs :
    (HasDone(r) /\ ~HasError(r)) =>
      LET out == req[r].out
      IN /\ out[1].type = "session"
         /\ Len(out) >= 3
         /\ \A i \in 2..(Len(out) - 1) : out[i].type = "text"
         /\ out[Len(out)] = DoneMarker

\* C8 amended: a request without session id whose provider call completes gets
\* the session envelope, then one text envelope for each non-empty fragment of
\* the provider (none when the provider emitted no text), then [DONE].
C8_SuccessStream ==
  \A r \in Reqs :
    (HasDone(r) /\ ~HasError(r)) =>
      req[r].out = <<SessionEnv(req[r].session_id)>>
                     \o TextEnvs(WithContent(completion[r])) \o <<DoneMarker>>

\* C8 witness: the provider completed after a content-less chunk only, and the
\* stream of the first request is the session envelope followed by [DONE]
C8_Witness ==
  \E r \in Reqs :
    /\ completion[r] = <<NoContent>>
    /\ req[r].out = <<SessionEnv(uuid4(1)), DoneMarker>>

\* The sessions of the store whose last append is more than the window ago
Stale == {s \in active_sessions : now - sessions[s].last_active > SESSION_EXPIRY}

\* C9: the sweep at the start of a request removes every session whose last
\* append is more than 30 minutes ago; a request carrying such an id is served
\* by a new session under another id whose transcript holds the system message
\* and that request's user message only; no request resolves to an expired
\* session.
C9_ExpiryStep ==
  \A r \in Reqs, sid \in CallerIds, q \in Queries :
    Handles(r, sid, q) =>
      LET id == req'[r].session_id
      IN /\ active_sessions' \cap Stale = {}
         /\ id \in DOMAIN sessions => now - sessions[id].last_active <= SESSION_EXPIRY
         /\ sid \in Stale =>
              /\ id # sid
              /\ id \notin DOMAIN sessions
              /\ sessions'[id].messages = <<SystemMsg, UserMsg(q)>>
              /\ sessions'[sid] = sessions[sid]

C9_ExpiredNeverResolved == [][C9_ExpiryStep]_vars

\* C9 witness: the first session was swept by the second request, which is
\* served by a second session holding only the system and its user message
C9_Witness ==
  /\ DOMAIN sessions = {uuid4(1), uuid4(2)}
  /\ uuid4(1) \notin active_sessions
  /\ now - sessions[uuid4(1)].last_active > SESSION_EXPIRY
  /\ sessions[uuid4(2)].messages = <<SystemMsg, UserMsg(Query(2))>>
  /\ \E r \in Reqs : req[r].session_id = uuid4(2)

\* C10: sweeping twice with no elapsed time leaves the store as sweeping once
\* does, and the second sweep finds no session to remove.
C10_SweepIdempotent ==
  LET once == clean_expired_sessions(active_sessions, sessions, now)
  IN /\ clean_expired_sessions(once, sessions, now) = once
     /\ expired_sessions(once, sessions, now) = {}

\* C10 witness: two sessions of the store are expired and not yet swept
C10_Witness == Cardinality(Stale) = 2

\* The session a step of the response in slot r works on
SessionOf(r) == IF req[r].pc = "idle" THEN req'[r].session_id ELSE req[r].session_id

\* C11: the sessions are isolated: a step of a request on session A leaves
\* the transcript and the last-activity time of every other session B as they
\* are, and no step changes two sessions.
C11_IsolationStep ==
  /\ \A r \in Reqs : StepOf(r) =>
       \A s \in DOMAIN sessions : s # SessionOf(r) => sessions'[s] = sessions[s]
  /\ \A a, b \in DOMAIN sessions :
       (sessions'[a] # sessions[a] /\ sessions'[b] # sessions[b]) => a = b

C11_SessionIsolation == [][C11_IsolationStep]_vars

\* C11 witness: two sessions in the store, each with a request streaming, and
\* a reply appended to the second while the first holds its user message only
C11_Witness ==
  /\ active_sessions = {uuid4(1), uuid4(2)}
  /\ \E r, p \in Reqs : /\ req[r].session_id = uuid4(1) /\ InFlight(r)
                        /\ req[p].session_id = uuid4(2) /\ req[p].pc = "yield_done"
  /\ Len(sessions[uuid4(1)].messages) = 2
  /\ Len(sessions[uuid4(2)].messages) = 3

\* C12: in every state every transcript holds exactly one system message, as
\* its first element, and every other element is a user or assistant message.
C12_OneSystemMessageFirst ==
  \A s \in DOMAIN sessions :
    LET m == sessions[s].messages
    IN /\ Len(m) >= 1
       /\ m[1] = SystemMsg
       /\ \A i \in 2..Len(m) : m[i].role \in {"user", "assistant"}

\* C12 witness: two requests raced on one session and both replies are in
\* its transcript
C12_Witness ==
  \E s \in DOMAIN sessions :
    /\ ~exchanges[s].serial
    /\ exchanges[s].n = 2
    /\ Len(sessions[s].messages) = 5

\* Sequence p is a prefix of sequence q
IsPrefix(p, q) == Len(p) <= Len(q) /\ SubSeq(q, 1, Len(p)) = p

\* C13: a transcript only grows: across every step (success, provider
\* failure, caller disconnect, sweep) the transcript before the step is a
\* prefix of the transcript after it, and no Session object disappears.
C13_GrowthStep ==
  /\ DOMAIN sessions \subseteq DOMAIN sessions'
  /\ \A s \in DOMAIN sessions : IsPrefix(sessions[s].messages, sessions'[s].messages)

C13_TranscriptOnlyGrows == [][C13_GrowthStep]_vars

\* C13 witness: a transcript of two exchanges, after a response on the same
\* session was closed by its caller
C13_Witness ==
  \E s \in DOMAIN sessions :
    /\ Len(sessions[s].messages) = 4
    /\ sessions[s].messages[4].role = "user"
    /\ sessions[s].messages[3].role = "assistant"
    /\ \A r \in Reqs : req[r].pc = "idle"

\* C14: when the requests on a live session are handled one after another,
\* the provider is called with the complete history of the session in
\* conversation order: the system message, every earlier user message with
\* its assistant reply, and last the user message of the current request.
C14_CallStep ==
  \A r \in Reqs :
    (/\ StepOf(r)
     /\ req[r].pc = "yield_session"
     /\ req'[r].pc # "idle"
     /\ exchanges[req[r].session_id].serial) =>
      LET m == req'[r].sent
          n == exchanges[req[r].session_id].n
      IN /\ m = sessions[req[r].session_id].messages
         /\ Len(m) = 2 * n + 2
         /\ m[1] = SystemMsg
         /\ \A i \in 1..n : m[2 * i].role = "user" /\ m[2 * i + 1].role = "assistant"
         /\ m[2 * n + 2].role = "user"
         /\ \A i, j \in 1..Len(m) : (i < j /\ m[i].role = "user" /\ m[j].role = "user")
                                       => m[i] # m[j]

C14_SentOnce ==
  \A r \in Reqs :
    (StepOf(r) /\ req[r].sent # <<>> /\ req'[r].pc # "idle") => req'[r].sent = req[r].sent

C14_FullHistorySent == [][C14_CallStep /\ C14_SentOnce]_vars

\* C14 witness: the second request on a session was called with the system
\* message, the first query and its reply, and the second query
C14_Witness ==
  \E r \in Reqs :
    /\ req[r].pc # "idle"
    /\ exchanges[req[r].session_id].serial
    /\ req[r].sent = <<SystemMsg, UserMsg(Query(1)), Msg("assistant", Fragment(1)),
                       UserMsg(Query(2))>>

\* C15: every response whose caller does not disconnect eventually receives
\* [DONE], whatever the other responses do, also when they race on the same
\* session id.
C15_EventuallyDone ==
  \A r \in Reqs : (req[r].pc # "idle") ~> (HasDone(r) \/ req[r].pc = "idle")

\* C15 witness: two responses on the same session have both received [DONE]
C15_Witness ==
  \E r, p \in Reqs :
    /\ r # p
    /\ HasDone(r)
    /\ HasDone(p)
    /\ req[r].session_id = req[p].session_id

\* C16: when the caller closes the stream while the generator is suspended
\* mid-stream, the response delivers nothing more and appends no assistant
\* message: the accumulated fragments are discarded and the request has
\* appended its user message only.
C16_CloseStep ==
  \A r \in Reqs :
    (StepOf(r) /\ MidStream(r) /\ req'[r].pc = "idle") =>
      /\ sessions' = sessions
      /\ appended[r] = <<"user">>
      /\ req'[r] = IdleReq
      /\ appended'[r] = <<>>

C16_ClosedAppendsNothing ==
  \A s \in DOMAIN sessions :
    LET m == sessions[s].messages
    IN Len(SelectSeq(m, LAMBDA x : x.role = "assistant")) = exchanges[s].n

C16_DisconnectDiscards == [][C16_CloseStep]_vars /\ []C16_ClosedAppendsNothing

\* C16 witness: the only response was closed by its caller, no reply was
\* completed, and the transcript holds the system and the user message
C16_Witness ==
  /\ served = 1
  /\ \A r \in Reqs : req[r].pc = "idle"
  /\ exchanges[uuid4(1)].closed
  /\ exchanges[uuid4(1)].n = 0
  /\ sessions[uuid4(1)].messages = <<SystemMsg, UserMsg(Query(1))>>

\* C17: the sweep removes exactly the sessions idle for more than the window
\* and leaves every other session, also one idle for exactly the window, in
\* the store with its transcript and last-activity time; after the sweep of a
\* request no expired session is in the store.
C17_RemovesExactlyStale ==
  clean_expired_sessions(active_sessions, sessions, now) = active_sessions \ Stale

C17_SweepStep ==
  \A r \in Reqs, sid \in CallerIds, q \in Queries :
    Handles(r, sid, q) =>
      LET id == req'[r].session_id
      IN /\ active_sessions' = (active_sessions \ Stale) \cup {id}
         /\ \A s \in DOMAIN sessions : s # id => sessions'[s] = sessions[s]
         /\ \A s \in active_sessions' : now - sessions'[s].last_active <= SESSION_EXPIRY

C17_SweepIsExact == []C17_RemovesExactlyStale /\ [][C17_SweepStep]_vars

\* C17 witness: a request was handled when the first session had been idle
\* for exactly the window, and that session is still in the store
C17_Witness ==
  /\ active_sessions = {uuid4(1), uuid4(2)}
  /\ now - sessions[uuid4(1)].last_active = SESSION_EXPIRY
  /\ sessions[uuid4(2)].last_active = now
  /\ sessions[uuid4(1)].messages = <<SystemMsg, UserMsg(Query(1))>>

\* The last element of a non-empty sequence
Last(seq) == seq[Len(seq)]

\* C18: the sweep, the resolution of the session and the append of the user
\* message are one step of a request: when a response leaves the idle state
\* the store is swept, its session is in the store and ends with the user
\* message; the store changes in no other step; and a response is only ever
\* suspended at an envelope delivery or at the pacing delay.
C18_HandlerStep ==
  \A r \in Reqs :
    (req[r].pc = "idle" /\ req'[r].pc # "idle") =>
      LET id == req'[r].session_id
      IN /\ req'[r].pc = "created"
         /\ active_sessions' \cap Stale = {}
         /\ id \in active_sessions'
         /\ Last(sessions'[id].messages).role = "user"
         /\ sessions'[id].last_active = now
         /\ appended'[r] = <<"user">>

C18_StoreStep ==
  active_sessions' # active_sessions =>
    \E r \in Reqs : req[r].pc = "idle" /\ req'[r].pc = "created"

C18_SuspensionPoints ==
  \A r \in Reqs :
    \/ req[r].pc \in {"idle", "created"}
    \/ req[r].pc = "yield_session" /\ Last(req[r].out).type = "session"
    \/ req[r].pc \in {"yield_text", "sleep"} /\ Last(req[r].out).type = "text"
    \/ req[r].pc = "yield_error" /\ Last(req[r].out).type = "error"
    \/ req[r].pc = "yield_done" /\ Last(req[r].out) = DoneMarker

C18_AtomicHandling == [][C18_HandlerStep /\ C18_StoreStep]_vars /\ []C18_SuspensionPoints

\* C18 witness: a second request was handled on the session of a response
\* suspended at its pacing delay, and its user message ends the transcript
C18_Witness ==
  \E r, p \in Reqs :
    /\ req[r].pc = "sleep"
    /\ req[p].pc = "created"
    /\ req[r].session_id = req[p].session_id
    /\ Last(sessions[req[p].session_id].messages) = UserMsg(Query(2))

\* C19 as stated: whenever a response appends its assistant reply, its session
\* is still in the store under its session id (the sweep of another request
\* never removes the session of a response that is still streaming).
C19_AppendStep ==
  \A r \in Reqs :
    (StepOf(r) /\ AtProvider(r) /\ req'[r].pc = "yield_done") =>
      req[r].session_id \in active_sessions

C19_ReplyAppendedInStore == [][C19_AppendStep]_vars

\* The messages of one role in a transcript
OfRole(m, role) == SelectSeq(m, LAMBDA x : x.role = role)

\* The ordinal of a query
Ordinal(content) == CHOOSE n \in 1..MaxRequests : Query(n) = content

\* The number of places where `msg` occurs in the transcripts
Occurrences(msg) ==
  LET places == {<<s, i>> \in (DOMAIN sessions) \X (1..(2 * MaxRequests + 1)) :
                   i <= Len(sessions[s].messages) /\ sessions[s].messages[i] = msg}
  IN Cardinality(places)

\* C20: when requests race on one session no append is lost: each step that
\* appends puts one message at the end of one transcript, the user message of
\* every request handled is in the transcripts exactly once, every completed
\* reply is in its session's transcript, and the user messages of a transcript
\* are in the order the requests were handled.
C20_AppendAtEnd ==
  \A s \in DOMAIN sessions :
    \/ sessions'[s].messages = sessions[s].messages
    \/ /\ Len(sessions'[s].messages) = Len(sessions[s].messages) + 1
       /\ SubSeq(sessions'[s].messages, 1, Len(sessions[s].messages)) = sessions[s].messages

C20_ReplyAtEnd ==
  \A r \in Reqs :
    (StepOf(r) /\ AtProvider(r) /\ req'[r].pc = "yield_done") =>
      sessions'[req[r].session_id].messages =
        Append(sessions[req[r].session_id].messages, Msg("assistant", req[r].full_response))

C20_AllPresent ==
  /\ \A n \in 1..served : Occurrences(UserMsg(Query(n))) = 1
  /\ \A s \in DOMAIN sessions :
       LET m == sessions[s].messages
       IN /\ Len(OfRole(m, "assistant")) = exchanges[s].n
          /\ Len(m) = 1 + Len(OfRole(m, "user")) + exchanges[s].n
          /\ \A i, j \in 1..Len(OfRole(m, "user")) :
               i < j => Ordinal(OfRole(m, "user")[i].content) < Ordinal(OfRole(m, "user")[j].content)

C20_NoLostAppend == [][C20_AppendAtEnd /\ C20_ReplyAtEnd]_vars /\ []C20_AllPresent

\* C20 witness: two requests raced on one session, the second was handled
\* after the first had delivered a fragment, and both replies were appended
C20_Witness ==
  \E s \in DOMAIN sessions :
    /\ ~exchanges[s].serial
    /\ sessions[s].messages = <<SystemMsg, UserMsg(Query(1)), UserMsg(Query(2)),
                                Msg("assistant", Fragment(1)), Msg("assistant", <<>>)>>
====
